---- MODULE Spec2Model ----
(***************************************************************************)
(* Model of the iter-diff crate (src/src/lib.rs): DiffIter, the iterator   *)
(* that pairs two iterators position by position and classifies each pair  *)
(* as Keep, Change, Remove or Add, and IterDiff::iter_diff, which builds   *)
(* it.                                                                     *)
(***************************************************************************)
EXTENDS Integers, Sequences, FiniteSets

\* ------------------------------------------------------------------ bounds
\* Longest script of a producer (the longest input sequence).
MaxLen == 2
\* Most calls of DiffIter::next on one engine instance.
MaxPulls == 4

\* Element values of T (left) and of U (right).
TVal == {0, 1}
UVal == {0, 1}

\* ----------------------------------------------------------------- state
VARIABLES
    a,        \* the left-hand input (self of iter_diff)
    b,        \* the right-hand input (rhs of iter_diff)
    eq,       \* the impl of PartialEq<U> for T
    built,    \* whether iter_diff has returned the engine
    lhs,      \* DiffIter.lhs
    rhs,      \* DiffIter.rhs
    out,      \* what the calls of DiffIter::next on this engine returned, in order
    log       \* the calls of next made on the two producers by this engine, in order

vars == <<a, b, eq, built, lhs, rhs, out, log>>

\* ------------------------------------------------------------------ values
\* Option<X>
None == [tag |-> "None"]
Some(x) == [tag |-> "Some", val |-> x]
IsSome(o) == o.tag = "Some"

\* enum Diff<U>
Change(v) == [tag |-> "Change", val |-> v]
Remove == [tag |-> "Remove"]
Keep == [tag |-> "Keep"]
Add(v) == [tag |-> "Add", val |-> v]

\* The impls of PartialEq<U> for T the type system can supply: every relation
\* between the two value sets (reflexive or not, symmetric or not).
PartialEqImpls == SUBSET (TVal \X UVal)

\* l == r for l : T, r : U under the impl rel.
PartialEq(l, r, rel) == <<l, r>> \in rel

\* ------------------------------------------------------------- producers
\* A value that is IntoIterator: the answers its iterator gives to successive
\* calls of next (script), and what it answers once the script is used up:
\* "done" = None for ever, "repeat" = the script again from its start.
\* An array or Vec is a script of Some(..) with tail "done"; the Iterator trait
\* also admits a script with a Some after a None (an iterator that is not fused)
\* and one that never answers None.
RECURSIVE SeqsUpTo(_, _)
SeqsUpTo(S, n) ==
    IF n = 0 THEN {<<>>}
    ELSE LET shorter == SeqsUpTo(S, n - 1)
         IN shorter \cup {Append(s, x) : s \in {t \in shorter : Len(t) = n - 1}, x \in S}

Producers(V) ==
    LET answers == {None} \cup {Some(v) : v \in V}
    IN {[script |-> s, tail |-> t] :
            s \in SeqsUpTo(answers, MaxLen), t \in {"done", "repeat"}}
       \ {[script |-> <<>>, tail |-> "repeat"]}

\* IntoIterator::into_iter: a cursor at the start of the producer.
into_iter(p) == [src |-> p, pos |-> 1]

\* Iterator::next of Lhs / Rhs on a cursor: the answer and the advanced cursor.
Iterator_next(it) ==
    LET n == Len(it.src.script)
    IN IF it.pos <= n
         THEN [item |-> it.src.script[it.pos], it |-> [it EXCEPT !.pos = it.pos + 1]]
       ELSE IF it.src.tail = "repeat"
         THEN [item |-> it.src.script[1], it |-> [it EXCEPT !.pos = 2]]
       ELSE [item |-> None, it |-> it]

\* The fields of an engine that iter_diff has not built yet.
Unbuilt == into_iter([script |-> <<>>, tail |-> "done"])

\* ---------------------------------------------------------------- engine
\* Variants of the match of DiffIter::next, each with one arm changed.
\* (Some(_), None) => None: stops at the shorter input, as zip does.
ClassifyZip(l, r, rel) ==
    IF ~IsSome(l) /\ ~IsSome(r) THEN None
    ELSE IF ~IsSome(l) THEN Some(Add(r.val))
    ELSE IF ~IsSome(r) THEN None
    ELSE IF PartialEq(l.val, r.val, rel) THEN Some(Keep)
    ELSE Some(Change(r.val))

\* false => Some(Diff::Change(l)): carries the old element.
ClassifyChangeLeft(l, r, rel) ==
    IF ~IsSome(l) /\ ~IsSome(r) THEN None
    ELSE IF ~IsSome(l) THEN Some(Add(r.val))
    ELSE IF ~IsSome(r) THEN Some(Remove)
    ELSE IF PartialEq(l.val, r.val, rel) THEN Some(Keep)
    ELSE Some(Change(l.val))

\* (None, Some(r)) => Some(Diff::Change(r)): the excess of rhs is not an Add.
ClassifyAddAsChange(l, r, rel) ==
    IF ~IsSome(l) /\ ~IsSome(r) THEN None
    ELSE IF ~IsSome(l) THEN Some(Change(r.val))
    ELSE IF ~IsSome(r) THEN Some(Remove)
    ELSE IF PartialEq(l.val, r.val, rel) THEN Some(Keep)
    ELSE Some(Change(r.val))

\* The two arms of match l == r exchanged.
ClassifyInverted(l, r, rel) ==
    IF ~IsSome(l) /\ ~IsSome(r) THEN None
    ELSE IF ~IsSome(l) THEN Some(Add(r.val))
    ELSE IF ~IsSome(r) THEN Some(Remove)
    ELSE IF PartialEq(l.val, r.val, rel) THEN Some(Change(r.val))
    ELSE Some(Keep)

\* match r == l: the operands of the comparison exchanged.
ClassifySwappedOperands(l, r, rel) ==
    IF ~IsSome(l) /\ ~IsSome(r) THEN None
    ELSE IF ~IsSome(l) THEN Some(Add(r.val))
    ELSE IF ~IsSome(r) THEN Some(Remove)
    ELSE IF PartialEq(r.val, l.val, rel) THEN Some(Keep)
    ELSE Some(Change(r.val))

\* (Some(_), None) => Some(Diff::Keep): the excess of lhs is kept.
ClassifyRemoveAsKeep(l, r, rel) ==
    IF ~IsSome(l) /\ ~IsSome(r) THEN None
    ELSE IF ~IsSome(l) THEN Some(Add(r.val))
    ELSE IF ~IsSome(r) THEN Some(Keep)
    ELSE IF PartialEq(l.val, r.val, rel) THEN Some(Keep)
    ELSE Some(Change(r.val))

\* (None, _) => None: stops as soon as lhs is exhausted.
ClassifyEndWithLhs(l, r, rel) ==
    IF ~IsSome(l) THEN None
    ELSE IF ~IsSome(r) THEN Some(Remove)
    ELSE IF PartialEq(l.val, r.val, rel) THEN Some(Keep)
    ELSE Some(Change(r.val))

\* The match of DiffIter::next on the two answers (l, r).
Classify(l, r, rel) ==
    IF ~IsSome(l) /\ ~IsSome(r) THEN None
    ELSE IF ~IsSome(l) THEN Some(Add(r.val))
    ELSE IF ~IsSome(r) THEN Some(Remove)
    ELSE IF PartialEq(l.val, r.val, rel) THEN Some(Keep)
    ELSE Some(Change(r.val))

\* A variant of DiffIter::next with let l = self.lhs.next()?; it returns None
\* without calling rhs once lhs answers None.
DiffIter_next_early_return(lhsIt, rhsIt, rel) ==
    LET l == Iterator_next(lhsIt)
        r == Iterator_next(rhsIt)
    IN IF IsSome(l.item)
         THEN [ret |-> Classify(l.item, r.item, rel),
               lhs |-> l.it,
               rhs |-> r.it,
               calls |-> <<[on |-> "lhs", got |-> l.item],
                           [on |-> "rhs", got |-> r.item]>>]
       ELSE [ret |-> None,
             lhs |-> l.it,
             rhs |-> rhsIt,
             calls |-> <<[on |-> "lhs", got |-> l.item]>>]

\* DiffIter::next on the engine (lhs, rhs): the returned Option<Diff<U>>, the
\* two advanced cursors, and the calls made on the producers, in order.
DiffIter_next(lhsIt, rhsIt, rel) ==
    LET l == Iterator_next(lhsIt)
        r == Iterator_next(rhsIt)
    IN [ret |-> Classify(l.item, r.item, rel),
        lhs |-> l.it,
        rhs |-> r.it,
        calls |-> <<[on |-> "lhs", got |-> l.item], [on |-> "rhs", got |-> r.item]>>]

\* IterDiff::iter_diff(self, rhs): the engine DiffIter { lhs, rhs } and the
\* calls of next it makes on the producers while building it (none).
iter_diff(l, r) ==
    [lhs |-> into_iter(l), rhs |-> into_iter(r), calls |-> <<>>]

\* --------------------------------------------------------------- actions
Init ==
    /\ a \in Producers(TVal)
    /\ b \in Producers(UVal)
    /\ eq \in PartialEqImpls
    /\ built = FALSE
    /\ lhs = Unbuilt
    /\ rhs = Unbuilt
    /\ out = <<>>
    /\ log = <<>>

\* let mut diffs = a.iter_diff(b);
CallIterDiff ==
    /\ ~built
    /\ LET e == iter_diff(a, b)
       IN /\ lhs' = e.lhs
          /\ rhs' = e.rhs
          /\ log' = e.calls
    /\ built' = TRUE
    /\ UNCHANGED <<a, b, eq, out>>

\* diffs.next();
CallNext ==
    /\ built
    /\ Len(out) < MaxPulls
    /\ LET s == DiffIter_next(lhs, rhs, eq)
       IN /\ lhs' = s.lhs
          /\ rhs' = s.rhs
          /\ out' = Append(out, s.ret)
          /\ log' = log \o s.calls
    /\ UNCHANGED <<a, b, eq, built>>

Next == CallIterDiff \/ CallNext

Spec == Init /\ [][Next]_vars

\* ---------------------------------------------------------------- inputs
Max(x, y) == IF x >= y THEN x ELSE y
Min(x, y) == IF x <= y THEN x ELSE y

\* p is a finite sequence (an array, a Vec): its iterator answers Some for each
\* element and None from then on.
IsSeq(p) == p.tail = "done" /\ \A i \in DOMAIN p.script : IsSome(p.script[i])
\* p never answers None.
NeverExhausts(p) == p.tail = "repeat" /\ \A i \in DOMAIN p.script : IsSome(p.script[i])
\* The elements of a producer whose script holds no None.
Elems(p) == [i \in DOMAIN p.script |-> p.script[i].val]
\* The i-th element (from 1) of a producer that never exhausts.
ElemAt(p, i) == p.script[((i - 1) % Len(p.script)) + 1].val

FiniteInputs == IsSeq(a) /\ IsSeq(b)
LenA == Len(a.script)
LenB == Len(b.script)

\* ------------------------------------------------------------ observations
\* Some call of next on the engine has returned None.
Ended == \E i \in DOMAIN out : out[i] = None
\* The first call of next that returned None.
EndAt == CHOOSE i \in DOMAIN out : out[i] = None /\ \A j \in 1..(i - 1) : out[j] # None
\* What collect() has gathered so far: the Edits returned before the first None.
Collected ==
    LET n == IF Ended THEN EndAt - 1 ELSE Len(out)
    IN [i \in 1..n |-> out[i].val]
\* The answers of lhs and of rhs to the k-th call of next on the engine.
GotL(k) == log[2 * k - 1].got
GotR(k) == log[2 * k].got

\* xs with the edits applied position by position from position i on: Keep
\* retains xs[i], Change(v) puts v in its place, Remove drops it, Add(v) appends v;
\* a position no edit covers is retained.
RECURSIVE Patch(_, _, _)
Patch(xs, edits, i) ==
    IF i > Max(Len(xs), Len(edits)) THEN <<>>
    ELSE LET here ==
                 IF i > Len(edits) THEN <<xs[i]>>
                 ELSE IF edits[i].tag = "Keep" THEN (IF i <= Len(xs) THEN <<xs[i]>> ELSE <<>>)
                 ELSE IF edits[i].tag = "Remove" THEN <<>>
                 ELSE <<edits[i].val>>
         IN here \o Patch(xs, edits, i + 1)

\* ----------------------------------------------------------------- claims
\* C1: for finite sequences a and b, pulling until the first end-of-sequence
\* yields exactly max(len(a), len(b)) Edits: never more at any moment, and
\* exactly that many once the engine has ended.
C1_EditCount ==
    FiniteInputs =>
        /\ Len(Collected) <= Max(LenA, LenB)
        /\ Ended => Len(Collected) = Max(LenA, LenB)

C1_Witness ==
    /\ FiniteInputs /\ Ended
    /\ LenA # LenB /\ Min(LenA, LenB) >= 1
    /\ Len(Collected) = Max(LenA, LenB)

\* C2: at every position i below min(len(a), len(b)) the Edit is Keep when
\* a[i] == b[i] holds and Change(b[i]) otherwise: Change carries the right-hand
\* element of that same position.
C2_Overlap ==
    FiniteInputs =>
        \A i \in DOMAIN out :
            i <= Min(LenA, LenB) =>
                out[i] = IF PartialEq(Elems(a)[i], Elems(b)[i], eq)
                           THEN Some(Keep)
                           ELSE Some(Change(Elems(b)[i]))

C2_Witness ==
    /\ FiniteInputs
    /\ \E i \in DOMAIN out :
        /\ i = 2 /\ i <= Min(LenA, LenB)
        /\ Elems(a)[i] # Elems(b)[i]
        /\ Elems(b)[1] # Elems(b)[i]
        /\ out[i] = Some(Change(Elems(b)[i]))

\* C3: for finite sequences, every position from min(len) up to max(len) is
\* Remove when a is the longer (len(a) - len(b) of them) and Add(b[i]) when b is
\* the longer; Add and Remove never both occur, and no Keep or Change follows an
\* Add or a Remove.
C3_Excess ==
    FiniteInputs =>
        /\ \A i \in DOMAIN out :
            (Min(LenA, LenB) < i /\ i <= Max(LenA, LenB)) =>
                out[i] = IF LenA > LenB THEN Some(Remove) ELSE Some(Add(Elems(b)[i]))
        /\ (Ended /\ LenA >= LenB) =>
            Cardinality({i \in DOMAIN Collected : Collected[i] = Remove}) = LenA - LenB
        /\ ~ \E i, j \in DOMAIN Collected :
                Collected[i].tag = "Add" /\ Collected[j].tag = "Remove"
        /\ \A i, j \in DOMAIN Collected :
            (i < j /\ Collected[i].tag \in {"Add", "Remove"})
                => Collected[j].tag \notin {"Keep", "Change"}

C3_Witness ==
    /\ FiniteInputs /\ Ended
    /\ LenA >= 1 /\ LenB > LenA
    /\ Collected[LenB] = Add(Elems(b)[LenB])

\* C4 as stated: identical sequences give only Keep, whatever the relation.
C4_Original ==
    (FiniteInputs /\ Elems(a) = Elems(b)) =>
        \A i \in DOMAIN Collected : Collected[i] = Keep

\* C4: for identical sequences a and b the Edit at position i is Keep exactly
\* when a[i] == a[i] holds under the relation, and Change(a[i]) otherwise; so
\* every Edit is Keep when the relation is reflexive on the elements of a.
C4_IdenticalInputs ==
    (FiniteInputs /\ Elems(a) = Elems(b)) =>
        /\ \A i \in DOMAIN Collected :
            Collected[i] = IF PartialEq(Elems(a)[i], Elems(a)[i], eq)
                             THEN Keep
                             ELSE Change(Elems(a)[i])
        /\ (\A i \in DOMAIN a.script : PartialEq(Elems(a)[i], Elems(a)[i], eq))
            => \A i \in DOMAIN Collected : Collected[i] = Keep

C4_Witness ==
    /\ FiniteInputs /\ Elems(a) = Elems(b) /\ Ended
    /\ LenA = 2 /\ Elems(a)[1] # Elems(a)[2]
    /\ \A i \in DOMAIN a.script : PartialEq(Elems(a)[i], Elems(a)[i], eq)
    /\ Len(Collected) = 2
    /\ \A i \in DOMAIN Collected : Collected[i] = Keep

\* C5: once a call of next on the engine has returned None, every later call
\* on the same engine returns None, for every pair of producers.
C5_TerminationPermanent ==
    \A i, j \in DOMAIN out : (i < j /\ out[i] = None) => out[j] = None

\* C6: where both producers answer Some, the Edit is Keep exactly when
\* eq(l, r) holds with the left-hand element as the left operand; neither
\* eq(r, l) nor the identity of the two values decides it.
C6_HeterogeneousEq ==
    \A k \in DOMAIN out :
        (IsSome(GotL(k)) /\ IsSome(GotR(k))) =>
            (out[k] = Some(Keep) <=> <<GotL(k).val, GotR(k).val>> \in eq)

C6_Witness ==
    \E k \in DOMAIN out :
        /\ IsSome(GotL(k)) /\ IsSome(GotR(k))
        /\ GotL(k).val # GotR(k).val
        /\ <<GotL(k).val, GotR(k).val>> \in eq
        /\ <<GotR(k).val, GotL(k).val>> \notin eq
        /\ <<GotL(k).val, GotL(k).val>> \notin eq
        /\ out[k] = Some(Keep)

\* C7 as stated: applying the Edits to a yields exactly b.
C7_Original ==
    (FiniteInputs /\ Ended) => Patch(Elems(a), Collected, 1) = Elems(b)

\* C7: applying the Edits to a yields a sequence as long as b that agrees with
\* b everywhere but at the Keep positions, where it holds a[i] with a[i] == b[i]
\* under the relation; it is exactly b when the relation holds between identical
\* values only.
C7_PatchYieldsB ==
    (FiniteInputs /\ Ended) =>
        LET c == Patch(Elems(a), Collected, 1)
        IN /\ Len(c) = LenB
           /\ \A i \in DOMAIN c :
                \/ c[i] = Elems(b)[i]
                \/ /\ i <= LenA
                   /\ Collected[i] = Keep
                   /\ c[i] = Elems(a)[i]
                   /\ PartialEq(Elems(a)[i], Elems(b)[i], eq)
           /\ (\A p \in eq : p[1] = p[2]) => c = Elems(b)

C7_Witness ==
    /\ FiniteInputs /\ Ended
    /\ eq = {<<v, v>> : v \in TVal \cap UVal}
    /\ LenA = 2 /\ LenB = 1
    /\ Collected = <<Keep, Remove>>
    /\ Patch(Elems(a), Collected, 1) = Elems(b)

\* C9: building the engine calls neither producer, and every call of next on
\* the engine calls lhs once and then rhs once, whatever they answer: after k
\* calls each producer has been called k times.
C9_LockStep ==
    /\ ~built => log = <<>>
    /\ Len(log) = 2 * Len(out)
    /\ \A k \in DOMAIN out : log[2 * k - 1].on = "lhs" /\ log[2 * k].on = "rhs"
    /\ Cardinality({n \in DOMAIN log : log[n].on = "lhs"}) = Len(out)
    /\ Cardinality({n \in DOMAIN log : log[n].on = "rhs"}) = Len(out)

C9_Witness ==
    /\ built /\ Ended /\ Len(out) > EndAt
    /\ \E k \in 1..(EndAt - 1) : ~IsSome(GotL(k)) /\ IsSome(GotR(k))
    /\ Len(log) = 2 * Len(out)
    /\ log[Len(log)].on = "rhs"

\* C10: the engine returns None only on a call where both producers answer
\* None; with finite sequences that is call max(len(a), len(b)) + 1 and none
\* before it; with a producer that never exhausts it never returns None, and the
\* Edits past the end of the finite side are all Remove (lhs endless) or all
\* Add (rhs endless).
C10_EndOfSequence ==
    /\ \A k \in DOMAIN out :
        out[k] = None => (~IsSome(GotL(k)) /\ ~IsSome(GotR(k)))
    /\ FiniteInputs =>
        \A k \in DOMAIN out :
            /\ out[k] = None => k > Max(LenA, LenB)
            /\ k = Max(LenA, LenB) + 1 => out[k] = None
    /\ (NeverExhausts(a) \/ NeverExhausts(b)) => ~Ended
    /\ (NeverExhausts(a) /\ IsSeq(b)) =>
        \A k \in DOMAIN out : k > LenB => out[k] = Some(Remove)
    /\ (IsSeq(a) /\ NeverExhausts(b)) =>
        \A k \in DOMAIN out : k > LenA => out[k] = Some(Add(ElemAt(b, k)))

C10_Witness ==
    /\ IsSeq(a) /\ NeverExhausts(b)
    /\ LenA = 1 /\ LenB = 2
    /\ Len(out) >= 4
    /\ out[4] = Some(Add(ElemAt(b, 4)))
    /\ ElemAt(b, 4) # ElemAt(b, 3)

====
